---- MODULE Spec2Model ----
(***************************************************************************)
(* Bounded ring buffer of heap-allocated strings (struct fifo).           *)
(* The state machine follows the completed implementation: fifo_new,      *)
(* fifo_free, fifo_push, fifo_pull and fifo_dump.  fifo_filled is the     *)
(* occupancy helper of the earlier revision of the same file.             *)
(***************************************************************************)
EXTENDS Integers, Sequences, FiniteSets, TLC

\* ---------------------------------------------------------------- bounds
\* largest size handed to fifo_new
MaxSize == 3
\* number of fifo_push calls with a string made on one buffer
MaxPush == 6

\* ------------------------------------------------------------- constants
NULL == "NULL"
Str == {"a", "b"}
Sizes == (0 - 1) .. MaxSize

VARIABLES
  isnull,   \* main's pointer `fifo` is NULL (no object)
  fifo,     \* the struct fifo: size, empty, produce, consume, contents
  op,       \* last call made: "init", "new", "push", "pull", "dump", "free"
  arg,      \* argument of the last call (size for new, str for push)
  alloc,    \* "none": the last call did not call calloc; "ok"; "fail"
  ret,      \* value returned by the last call
  pre,      \* the struct as it was when the last call was entered
  pushed,   \* strings stored by fifo_push on this buffer, in order
  pulled,   \* strings returned (non-NULL) by fifo_pull on this buffer
  sink,     \* lines printed by the last fifo_dump
  released, \* slot indices whose string the last fifo_free released
  inspected, \* slot indices the release loop of the last fifo_free read
  pc,       \* "run", or "crashed" after undefined behaviour
  after_full_pull, \* the last call came right after a fifo_pull entered on a full buffer
  wrap_step \* calls made on this buffer while they follow the wrap-around scenario, else -1

vars == <<isnull, fifo, op, arg, alloc, ret, pre, pushed, pulled, sink, released, pc,
         inspected,
         after_full_pull, wrap_step>>

\* calloc(1, sizeof(struct fifo) + sizeof(char *) * n): all fields zero
ZeroFifo(n) ==
  [size |-> 0, empty |-> 0, produce |-> 0, consume |-> 0,
   contents |-> [i \in 0 .. (n - 1) |-> NULL]]

\* ------------------------------------------------------------- fifo_new
fifo_new_empty_m(sz) == 1
fifo_new_empty(sz) == IF sz > 0 THEN 1 ELSE 0

fifo_new_init(sz) ==
  [ZeroFifo(sz) EXCEPT !.size = sz, !.empty = fifo_new_empty(sz)]

\* ---------------------------------------------------------- fifo_filled
fifo_filled(f) ==
  IF f.produce > f.consume THEN f.produce - f.consume
  ELSE IF f.produce < f.consume THEN (f.size - f.consume) + f.produce
  ELSE IF f.empty = 1 THEN 0 ELSE f.size

\* ------------------------------------------------------------ fifo_push
\* variant: space as the number of free slots (size - fifo_filled), the way
\* the earlier revision of fifo_push computed it
push_space_count(f) == f.size - fifo_filled(f)

push_space_m(f) == IF f.size > 0 THEN 1 ELSE 0
push_space(f) ==
  IF (f.consume # f.produce)
     \/ (f.size > 0 /\ f.consume = f.produce /\ f.empty = 1)
  THEN 1 ELSE 0

\* variant: produce advanced without the wrap to slot 0
push_store_nowrap(f, s) ==
  [f EXCEPT !.contents[f.produce] = s,
            !.produce = f.produce + 1,
            !.empty = IF f.empty = 1 THEN 0 ELSE f.empty]

push_store_m(f, s) ==
  [f EXCEPT !.contents[f.produce] = s,
            !.produce = (f.produce + 1) % f.size]
push_store(f, s) ==
  [f EXCEPT !.contents[f.produce] = s,
            !.produce = (f.produce + 1) % f.size,
            !.empty = IF f.empty = 1 THEN 0 ELSE f.empty]

\* ------------------------------------------------------------ fifo_pull
\* variant: the empty flag is not consulted
pull_space_noempty(f) == IF f.size = 0 THEN 0 ELSE 1

pull_space_m(f) ==
  IF f.consume = f.produce /\ f.empty = 1 THEN 0 ELSE 1
pull_space(f) ==
  IF (f.consume = f.produce /\ f.empty = 1) \/ f.size = 0 THEN 0 ELSE 1

pull_str_m(f) == f.contents[(f.produce + f.size - 1) % f.size]
pull_str(f) == f.contents[f.consume]

\* variant: the slot is not set to NULL
pull_take_noclear(f) ==
  LET c == (f.consume + 1) % f.size IN
  [f EXCEPT !.consume = c,
            !.empty = IF c = f.produce THEN 1 ELSE f.empty]

pull_take_m(f) ==
  LET c == (f.consume + 1) % f.size IN
  [f EXCEPT !.contents[f.consume] = NULL,
            !.consume = c]
pull_take(f) ==
  LET c == (f.consume + 1) % f.size IN
  [f EXCEPT !.contents[f.consume] = NULL,
            !.consume = c,
            !.empty = IF c = f.produce THEN 1 ELSE f.empty]

\* result of one fifo_pull call on struct f: the struct after it and str.
\* ub: the removal was reached with size = 0 (contents[0] read past the
\* allocation, (consume + 1) % 0 evaluated)
fifo_pull_res(f) ==
  IF pull_space(f) <= 0 THEN [f |-> f, str |-> NULL, ub |-> FALSE]
  ELSE IF f.size = 0 THEN [f |-> f, str |-> NULL, ub |-> TRUE]
  ELSE [f |-> pull_take(f), str |-> pull_str(f), ub |-> FALSE]

\* ------------------------------------------------------------ fifo_dump
\* variant: `if` in place of `while`, at most one string is pulled
dump_loop_m(f, out) ==
  LET r == fifo_pull_res(f) IN
  IF r.str = NULL THEN [f |-> r.f, out |-> out, ub |-> r.ub]
  ELSE [f |-> r.f, out |-> Append(out, r.str), ub |-> FALSE]

RECURSIVE dump_loop(_, _)
dump_loop(f, out) ==
  LET r == fifo_pull_res(f) IN
  IF r.str = NULL THEN [f |-> r.f, out |-> out, ub |-> r.ub]
  ELSE dump_loop(r.f, Append(out, r.str))

\* ------------------------------------------------------------ fifo_free
\* the release loop: rel collects the slots whose string is released
RECURSIVE free_loop(_, _, _, _)
free_loop(f, curr, end, rel) ==
  IF curr # end \/ f.empty = 0 THEN
    LET rel2 == IF f.contents[curr] # NULL THEN Append(rel, curr) ELSE rel
        c2 == (curr + 1) % f.size
        f2 == IF c2 = end THEN [f EXCEPT !.empty = 1] ELSE f
    IN free_loop(f2, c2, end, rel2)
  ELSE rel

\* the slots the release loop reads, in order; with size = 0 the loop reads
\* contents[curr] and stops at (curr + 1) % 0
RECURSIVE free_reads(_, _, _, _)
free_reads(f, curr, end, rd) ==
  IF curr # end \/ f.empty = 0 THEN
    IF f.size = 0 THEN Append(rd, curr)
    ELSE LET c2 == (curr + 1) % f.size
             f2 == IF c2 = end THEN [f EXCEPT !.empty = 1] ELSE f
         IN free_reads(f2, c2, end, Append(rd, curr))
  ELSE rd

free_start(f) ==
  IF f.consume = f.produce /\ f.empty = 0
  THEN [curr |-> 0, end |-> 0]
  ELSE [curr |-> f.consume, end |-> f.produce]

\* the loop is entered with size = 0: contents[0] is read past the
\* allocation and (curr + 1) % 0 is evaluated
free_undefined(f) ==
  LET s == free_start(f) IN
  f.size = 0 /\ (s.curr # s.end \/ f.empty = 0)

\* number of slots that hold a string
Live(f) == Cardinality({i \in DOMAIN f.contents : f.contents[i] # NULL})

\* the call just made was a fifo_pull entered with every slot occupied
full_pull_done == op = "pull" /\ ~isnull /\ Live(pre) = pre.size

\* the wrap-around scenario on a buffer of size C: C pushes of a string,
\* C pulls, C more pushes, C more pulls, nothing else in between
wrap_expected(step, C) ==
  IF step < C THEN "push"
  ELSE IF step < 2 * C THEN "pull"
  ELSE IF step < 3 * C THEN "push"
  ELSE IF step < 4 * C THEN "pull"
  ELSE "none"

\* wrap_step after a call of the given kind ("push", "pull" or "other")
wrap_next(kind) ==
  IF isnull \/ wrap_step < 0 THEN 0 - 1
  ELSE IF kind = wrap_expected(wrap_step, fifo.size) THEN wrap_step + 1
  ELSE 0 - 1

\* ----------------------------------------------------------------- Init
Init ==
  /\ isnull = TRUE
  /\ fifo = ZeroFifo(0)
  /\ op = "init"
  /\ arg = NULL
  /\ alloc = "none"
  /\ ret = NULL
  /\ pre = ZeroFifo(0)
  /\ pushed = <<>>
  /\ pulled = <<>>
  /\ sink = <<>>
  /\ released = <<>>
  /\ inspected = <<>>
  /\ pc = "run"
  /\ after_full_pull = FALSE
  /\ wrap_step = 0 - 1

\* -------------------------------------------------------------- actions
\* fifo = fifo_new(sz), rejected: negative size
NewNegative ==
  \E sz \in Sizes :
    /\ pc = "run" /\ isnull /\ sz < 0
    /\ op' = "new" /\ arg' = sz /\ alloc' = "none" /\ ret' = NULL
    /\ pre' = fifo /\ after_full_pull' = full_pull_done
    /\ wrap_step' = 0 - 1
    /\ sink' = <<>> /\ released' = <<>> /\ inspected' = <<>>
  /\ UNCHANGED <<isnull, fifo, pushed, pulled, pc>>

\* fifo = fifo_new(sz), calloc returns NULL
NewAllocFail ==
  \E sz \in Sizes :
    /\ pc = "run" /\ isnull /\ sz >= 0
    /\ op' = "new" /\ arg' = sz /\ alloc' = "fail" /\ ret' = NULL
    /\ pre' = fifo /\ after_full_pull' = full_pull_done
    /\ wrap_step' = 0 - 1
    /\ sink' = <<>> /\ released' = <<>> /\ inspected' = <<>>
  /\ UNCHANGED <<isnull, fifo, pushed, pulled, pc>>

\* fifo = fifo_new(sz), object returned
NewOk ==
  \E sz \in Sizes :
    /\ pc = "run" /\ isnull /\ sz >= 0
    /\ op' = "new" /\ arg' = sz /\ alloc' = "ok" /\ ret' = "obj"
    /\ pre' = fifo /\ after_full_pull' = full_pull_done
    /\ wrap_step' = 0
    /\ isnull' = FALSE
    /\ fifo' = fifo_new_init(sz)
    /\ pushed' = <<>> /\ pulled' = <<>>
    /\ sink' = <<>> /\ released' = <<>> /\ inspected' = <<>>
    /\ UNCHANGED pc

\* fifo_push(NULL, str)
PushNoFifo ==
  \E s \in Str \cup {NULL} :
    /\ pc = "run" /\ isnull /\ op # "push"
    /\ op' = "push" /\ arg' = s /\ alloc' = "none" /\ ret' = 0
    /\ pre' = fifo /\ after_full_pull' = full_pull_done
    /\ wrap_step' = 0 - 1
    /\ sink' = <<>> /\ released' = <<>> /\ inspected' = <<>>
  /\ UNCHANGED <<isnull, fifo, pushed, pulled, pc>>

\* fifo_push(fifo, NULL): the query
PushQuery ==
  /\ pc = "run" /\ ~isnull
  /\ op' = "push" /\ arg' = NULL /\ alloc' = "none"
  /\ ret' = push_space(fifo)
  /\ pre' = fifo /\ after_full_pull' = full_pull_done
  /\ wrap_step' = wrap_next("other")
  /\ sink' = <<>> /\ released' = <<>> /\ inspected' = <<>>
  /\ UNCHANGED <<isnull, fifo, pushed, pulled, pc>>

\* fifo_push(fifo, s) with no space
PushReject ==
  \E s \in Str :
    /\ pc = "run" /\ ~isnull /\ Len(pushed) < MaxPush
    /\ push_space(fifo) <= 0
    /\ op' = "push" /\ arg' = s /\ alloc' = "none"
    /\ ret' = push_space(fifo)
    /\ pre' = fifo /\ after_full_pull' = full_pull_done
    /\ wrap_step' = wrap_next("push")
    /\ sink' = <<>> /\ released' = <<>> /\ inspected' = <<>>
  /\ UNCHANGED <<isnull, fifo, pushed, pulled, pc>>

\* variant: the str_cpy == NULL test made after the slot and produce are written
PushAllocFail_m ==
  \E s \in Str :
    /\ pc = "run" /\ ~isnull /\ Len(pushed) < MaxPush
    /\ push_space(fifo) > 0 /\ fifo.size > 0
    /\ op' = "push" /\ arg' = s /\ alloc' = "fail"
    /\ ret' = push_space(fifo)
    /\ pre' = fifo /\ after_full_pull' = full_pull_done
    /\ wrap_step' = wrap_next("other")
    /\ fifo' = push_store(fifo, NULL)
    /\ sink' = <<>> /\ released' = <<>> /\ inspected' = <<>>
    /\ UNCHANGED <<isnull, pushed, pulled, pc>>

\* fifo_push(fifo, s) with space, calloc of the copy returns NULL
PushAllocFail ==
  \E s \in Str :
    /\ pc = "run" /\ ~isnull /\ Len(pushed) < MaxPush
    /\ push_space(fifo) > 0
    /\ op' = "push" /\ arg' = s /\ alloc' = "fail"
    /\ ret' = push_space(fifo)
    /\ pre' = fifo /\ after_full_pull' = full_pull_done
    /\ wrap_step' = wrap_next("other")
    /\ sink' = <<>> /\ released' = <<>> /\ inspected' = <<>>
  /\ UNCHANGED <<isnull, fifo, pushed, pulled, pc>>

\* fifo_push(fifo, s) with space, copy stored.  With size = 0 the store
\* writes contents[0] past the allocation and evaluates (produce + 1) % 0:
\* undefined, the build traps or returns with the struct as it was
PushStore ==
  \E s \in Str, outcome \in {"crashed", "run"} :
    /\ pc = "run" /\ ~isnull /\ Len(pushed) < MaxPush
    /\ push_space(fifo) > 0
    /\ op' = "push" /\ arg' = s /\ alloc' = "ok"
    /\ ret' = push_space(fifo)
    /\ pre' = fifo /\ after_full_pull' = full_pull_done
    /\ wrap_step' = wrap_next("push")
    /\ IF fifo.size = 0
       THEN /\ pc' = outcome
            /\ UNCHANGED <<fifo, pushed>>
       ELSE /\ outcome = "run"
            /\ fifo' = push_store(fifo, s)
            /\ pushed' = Append(pushed, s)
            /\ pc' = pc
    /\ sink' = <<>> /\ released' = <<>> /\ inspected' = <<>>
    /\ UNCHANGED <<isnull, pulled>>

\* fifo_pull(NULL)
PullNoFifo ==
  /\ pc = "run" /\ isnull /\ op # "pull"
  /\ op' = "pull" /\ arg' = NULL /\ alloc' = "none" /\ ret' = NULL
  /\ pre' = fifo /\ after_full_pull' = full_pull_done
  /\ wrap_step' = 0 - 1
  /\ sink' = <<>> /\ released' = <<>> /\ inspected' = <<>>
  /\ UNCHANGED <<isnull, fifo, pushed, pulled, pc>>

\* str = fifo_pull(fifo)
Pull ==
  \E outcome \in {"crashed", "run"} :
    LET r == fifo_pull_res(fifo) IN
      /\ pc = "run" /\ ~isnull
      /\ op' = "pull" /\ arg' = NULL /\ alloc' = "none"
      /\ ret' = r.str
      /\ pre' = fifo /\ after_full_pull' = full_pull_done
      /\ wrap_step' = wrap_next("pull")
      /\ fifo' = r.f
      /\ pulled' = IF r.str # NULL THEN Append(pulled, r.str) ELSE pulled
      /\ pc' = IF r.ub THEN outcome ELSE pc
      /\ (~r.ub => outcome = "run")
      /\ sink' = <<>> /\ released' = <<>> /\ inspected' = <<>>
      /\ UNCHANGED <<isnull, pushed>>

\* fifo_dump(fifo)
Dump ==
  \E outcome \in {"crashed", "run"} :
    LET d == dump_loop(fifo, <<>>) IN
      /\ pc = "run" /\ ~isnull
      /\ op' = "dump" /\ arg' = NULL /\ alloc' = "none" /\ ret' = NULL
      /\ pre' = fifo /\ after_full_pull' = full_pull_done
      /\ wrap_step' = wrap_next("other")
      /\ fifo' = d.f
      /\ sink' = d.out
      /\ pulled' = pulled \o d.out
      /\ pc' = IF d.ub THEN outcome ELSE pc
      /\ (~d.ub => outcome = "run")
      /\ released' = <<>> /\ inspected' = <<>>
      /\ UNCHANGED <<isnull, pushed>>

\* fifo_free(NULL)
FreeNoFifo ==
  /\ pc = "run" /\ isnull /\ op # "free"
  /\ op' = "free" /\ arg' = NULL /\ alloc' = "none" /\ ret' = NULL
  /\ pre' = fifo /\ after_full_pull' = full_pull_done /\ released' = <<>> /\ inspected' = <<>> /\ sink' = <<>>
  /\ wrap_step' = 0 - 1
  /\ UNCHANGED <<isnull, fifo, pushed, pulled, pc>>

\* fifo_free(fifo), release loop well defined
Free ==
  LET s == free_start(fifo) IN
    /\ pc = "run" /\ ~isnull /\ ~free_undefined(fifo)
    /\ op' = "free" /\ arg' = "obj" /\ alloc' = "none" /\ ret' = NULL
    /\ pre' = fifo /\ after_full_pull' = full_pull_done
    /\ wrap_step' = wrap_next("other")
    /\ released' = free_loop(fifo, s.curr, s.end, <<>>)
    /\ inspected' = free_reads(fifo, s.curr, s.end, <<>>)
    /\ isnull' = TRUE
    /\ fifo' = ZeroFifo(0)
    /\ sink' = <<>>
    /\ UNCHANGED <<pushed, pulled, pc>>

\* fifo_free(fifo) on a buffer of size 0: undefined behaviour.  The loop
\* reads contents[0] past the allocation, so what it finds there is
\* indeterminate (NULL, or a pointer it then releases), and evaluates
\* (curr + 1) % 0: the build either traps on the division or returns
FreeUndefined ==
  \E outcome \in {"crashed", "run"}, garbage \in BOOLEAN :
    LET s == free_start(fifo) IN
      /\ pc = "run" /\ ~isnull /\ free_undefined(fifo)
      /\ op' = "free" /\ arg' = "obj" /\ alloc' = "none" /\ ret' = NULL
      /\ pre' = fifo /\ after_full_pull' = full_pull_done
      /\ wrap_step' = wrap_next("other")
      /\ inspected' = free_reads(fifo, s.curr, s.end, <<>>)
      /\ released' = IF garbage THEN inspected' ELSE <<>>
      /\ pc' = outcome
      /\ isnull' = (outcome = "run")
      /\ fifo' = IF outcome = "run" THEN ZeroFifo(0) ELSE fifo
      /\ sink' = <<>>
      /\ UNCHANGED <<pushed, pulled>>

Next ==
  \/ NewNegative \/ NewAllocFail \/ NewOk
  \/ PushNoFifo \/ PushQuery \/ PushReject \/ PushAllocFail \/ PushStore
  \/ PullNoFifo \/ Pull
  \/ Dump
  \/ FreeNoFifo \/ Free \/ FreeUndefined

Spec == Init /\ [][Next]_vars

\* =============================================================== claims
\* s is a prefix of t
IsPrefix(s, t) == Len(s) <= Len(t) /\ SubSeq(t, 1, Len(s)) = s

\* free slots of struct f, counted on the slots
FreeSlots(f) == f.size - Live(f)

\* C1: FIFO order.  In every state the sequence of strings returned by
\* the non-NULL pulls (single pulls and those made by fifo_dump) is a
\* prefix of the sequence of strings stored by the pushes, in the same order.
C1_FifoOrder == IsPrefix(pulled, pushed)

C1_Witness ==
  /\ op = "pull" /\ ret = "b"
  /\ pulled = <<"a", "b">> /\ pushed = <<"a", "b", "a">>

\* C2: occupancy round trip.  The occupancy computed from produce, consume
\* and empty equals the number of pushes that stored minus the number of
\* pulls that returned a string, and lies in 0 .. size.
C2_OccupancyRoundTrip ==
  ~isnull =>
    /\ fifo_filled(fifo) = Len(pushed) - Len(pulled)
    /\ fifo_filled(fifo) \in 0 .. fifo.size

C2_Witness ==
  /\ ~isnull /\ fifo.produce < fifo.consume
  /\ fifo_filled(fifo) = 2 /\ Len(pulled) = 2 /\ Len(pushed) = 4

\* C3: reject on full.  A fifo_push of a string entered with every slot
\* occupied returns 0, does not call calloc and leaves the struct, slots
\* included, as it was.
C3_RejectOnFull ==
  (op = "push" /\ ~isnull /\ arg # NULL /\ Live(pre) = pre.size) =>
    /\ ret = 0
    /\ alloc = "none"
    /\ fifo = pre

C3_Witness ==
  /\ op = "push" /\ ~isnull /\ arg = "b" /\ pre.size = 2
  /\ Live(pre) = 2 /\ ret = 0
  /\ pre.contents[0] = "a" /\ pre.contents[1] = "a"

\* C4 as stated: for every capacity, a push on a full buffer fails, and
\* the push that follows one pull made on the full buffer returns non-zero
\* and stores its string (its copy being allocated).
C4_Original ==
  /\ (op = "push" /\ ~isnull /\ arg # NULL /\ Live(pre) = pre.size) => ret = 0
  /\ (op = "push" /\ ~isnull /\ arg # NULL /\ after_full_pull
        /\ alloc # "fail") =>
       /\ ret # 0
       /\ alloc = "ok"
       /\ fifo.contents[pre.produce] = arg
       /\ Live(fifo) = Live(pre) + 1

\* C4: recovery from full, capacity >= 1.  A push on a full buffer fails,
\* and the push of a string that follows one pull made on the full buffer
\* returns non-zero and stores its string, provided its copy is allocated.
C4_RecoveryFromFull ==
  /\ (op = "push" /\ ~isnull /\ arg # NULL /\ Live(pre) = pre.size) => ret = 0
  /\ (op = "push" /\ ~isnull /\ arg # NULL /\ after_full_pull
        /\ alloc # "fail" /\ pre.size >= 1) =>
       /\ ret # 0
       /\ alloc = "ok"
       /\ fifo.contents[pre.produce] = arg
       /\ Live(fifo) = Live(pre) + 1

C4_Witness ==
  /\ op = "push" /\ ~isnull /\ after_full_pull /\ alloc = "ok"
  /\ pre.size = 2 /\ Live(pre) = 1 /\ Live(fifo) = 2 /\ ret = 1

\* C5: capacity zero.  On a buffer of size 0 every push, pull and dump
\* returns (push 0, pull NULL, dump with nothing printed) and leaves
\* produce, consume and empty at their constructed values.
C5_CapacityZero ==
  (op \in {"push", "pull", "dump"} /\ ~isnull /\ pre.size = 0) =>
    /\ pc = "run"
    /\ fifo = pre
    /\ fifo.produce = 0 /\ fifo.consume = 0
    /\ fifo.empty = fifo_new_init(0).empty
    /\ (op = "push" => ret = 0)
    /\ (op = "pull" => ret = NULL)
    /\ (op = "dump" => sink = <<>>)
    /\ pushed = <<>> /\ pulled = <<>>

\* a push of "a" made right after a pull, both on a buffer of size 0
C5_Witness ==
  /\ op = "push" /\ ~isnull /\ pre.size = 0 /\ fifo.size = 0
  /\ arg = "a" /\ ret = 0 /\ after_full_pull /\ pc = "run"

\* C6 as stated: a push that stored returns the number of slots that
\* were free when it was entered.
C6_Original ==
  (op = "push" /\ ~isnull /\ alloc = "ok") => ret = FreeSlots(pre)

\* C6: push return value.  A push that stored returns 1, the flag that
\* there was a free slot when it was entered, whatever the number of free
\* slots; a rejected push returns 0.
C6_PushReturnsFlag ==
  /\ (op = "push" /\ ~isnull /\ alloc = "ok") =>
       (ret = 1 /\ FreeSlots(pre) >= 1)
  /\ (op = "push" /\ ~isnull /\ arg # NULL /\ alloc = "none") =>
       (ret = 0 /\ FreeSlots(pre) = 0)

C6_Witness ==
  /\ op = "push" /\ ~isnull /\ alloc = "ok"
  /\ pre.size = 2 /\ FreeSlots(pre) = 2 /\ ret = 1

\* C7 as stated: fifo_push(fifo, NULL) changes nothing and returns the
\* number of free slots.
C7_Original ==
  (op = "push" /\ ~isnull /\ arg = NULL) =>
    (fifo = pre /\ ret = FreeSlots(pre))

\* C7: query mode.  fifo_push(fifo, NULL) changes nothing, calls no
\* calloc, and returns 1 when at least one slot is free and 0 when none is.
C7_QueryReturnsFlag ==
  (op = "push" /\ ~isnull /\ arg = NULL) =>
    /\ fifo = pre
    /\ alloc = "none"
    /\ ret = (IF FreeSlots(pre) > 0 THEN 1 ELSE 0)

C7_Witness ==
  /\ op = "push" /\ ~isnull /\ arg = NULL
  /\ pre.size = 3 /\ FreeSlots(pre) = 2 /\ ret = 1

\* C8: failed push is a no-op.  When calloc of the copy fails in a push
\* on a buffer with a free slot, the struct, slots included, is left as
\* it was, and no string is recorded as stored.
C8_FailedPushNoOp ==
  (op = "push" /\ ~isnull /\ alloc = "fail") =>
    /\ FreeSlots(pre) > 0
    /\ fifo = pre
    /\ Live(fifo) = Len(pushed) - Len(pulled)

C8_Witness ==
  /\ op = "push" /\ ~isnull /\ alloc = "fail" /\ arg = "b"
  /\ pre.size = 2 /\ Live(pre) = 1 /\ fifo = pre

\* C9: allocation failure is reported.  A push whose calloc failed
\* returns a value different from the value returned by a push that
\* stored its string from the same state.
C9_AllocFailureReported ==
  (op = "push" /\ ~isnull /\ alloc = "fail") =>
    ret # push_space(pre)

\* C10 as stated: fifo_new returns NULL for a negative size, and for
\* size >= 0 (calloc succeeding) a struct with produce = consume = 0,
\* empty = 1, the requested size and every slot NULL.
C10_Original ==
  /\ (op = "new" /\ arg < 0) => (ret = NULL /\ isnull /\ alloc = "none")
  /\ (op = "new" /\ arg >= 0 /\ alloc = "ok") =>
       /\ ret # NULL /\ ~isnull
       /\ fifo.produce = 0 /\ fifo.consume = 0
       /\ fifo.empty = 1
       /\ fifo.size = arg
       /\ DOMAIN fifo.contents = 0 .. (arg - 1)
       /\ \A i \in DOMAIN fifo.contents : fifo.contents[i] = NULL

\* C10: construction.  fifo_new returns NULL without calling calloc for a
\* negative size, and for size >= 0 (calloc succeeding) a struct with
\* produce = consume = 0, the requested size, every slot NULL, and
\* empty = 1 when size >= 1 but empty = 0 when size = 0.
C10_Construction ==
  /\ (op = "new" /\ arg < 0) => (ret = NULL /\ isnull /\ alloc = "none")
  /\ (op = "new" /\ arg >= 0 /\ alloc = "ok") =>
       /\ ret # NULL /\ ~isnull
       /\ fifo.produce = 0 /\ fifo.consume = 0
       /\ fifo.empty = (IF arg >= 1 THEN 1 ELSE 0)
       /\ fifo.size = arg
       /\ DOMAIN fifo.contents = 0 .. (arg - 1)
       /\ \A i \in DOMAIN fifo.contents : fifo.contents[i] = NULL

C10_Witness ==
  /\ op = "new" /\ arg = 0 /\ alloc = "ok" /\ ~isnull
  /\ fifo.size = 0 /\ fifo.empty = 0

\* slots of struct f that hold a string
LiveSlots(f) == {i \in DOMAIN f.contents : f.contents[i] # NULL}

\* the elements of sequence q
Range(q) == {q[i] : i \in DOMAIN q}

\* C11: ownership on destroy.  fifo_free of a buffer releases exactly the
\* strings that were stored by a push and not yet returned by a pull (the
\* slots that hold a string), each exactly once, and nothing else.
C11_OwnershipOnDestroy ==
  (op = "free" /\ arg = "obj") =>
    /\ Range(released) = LiveSlots(pre)
    /\ Cardinality(Range(released)) = Len(released)
    /\ Len(released) = Len(pushed) - Len(pulled)

\* C12 as stated: fifo_dump entered with k strings held returns after
\* printing exactly those k strings in insertion order and leaves the
\* buffer with no string, produce = consume and the empty flag set.
C12_Original ==
  (op = "dump" /\ ~isnull) =>
    /\ pc = "run"
    /\ Len(sink) = Live(pre)
    /\ sink = SubSeq(pushed, Len(pushed) - Live(pre) + 1, Len(pushed))
    /\ pulled = pushed
    /\ fifo_filled(fifo) = 0 /\ Live(fifo) = 0
    /\ fifo.produce = fifo.consume
    /\ fifo.empty = 1

\* C12: drain.  fifo_dump entered with k strings held returns after
\* printing exactly those k strings in insertion order and leaves the
\* buffer with no string and produce = consume; the empty flag is set
\* when size >= 1 and stays 0 when size = 0.
C12_Drain ==
  (op = "dump" /\ ~isnull) =>
    /\ pc = "run"
    /\ Len(sink) = Live(pre)
    /\ sink = SubSeq(pushed, Len(pushed) - Live(pre) + 1, Len(pushed))
    /\ pulled = pushed
    /\ fifo_filled(fifo) = 0 /\ Live(fifo) = 0
    /\ fifo.produce = fifo.consume
    /\ fifo.empty = (IF fifo.size >= 1 THEN 1 ELSE 0)

\* a dump of a full size-3 buffer whose oldest string sits in slot 1
C12_Witness ==
  /\ op = "dump" /\ ~isnull /\ pre.size = 3 /\ pre.consume = 1
  /\ Live(pre) = 3 /\ sink = <<"a", "b", "a">>

\* C13 as stated: for every capacity, empty = 1 exactly when no slot
\* holds a string.
C13_Original ==
  ~isnull => (fifo.empty = 1 <=> Live(fifo) = 0)

\* C13: empty-flag invariant.  For a buffer of size >= 1, empty = 1
\* exactly when no slot holds a string; for a buffer of size 0, which
\* never holds a string, empty is 0 in every state.
C13_EmptyFlag ==
  ~isnull =>
    /\ fifo.empty \in {0, 1}
    /\ fifo.size >= 1 => (fifo.empty = 1 <=> Live(fifo) = 0)
    /\ fifo.size = 0 => (fifo.empty = 0 /\ Live(fifo) = 0)

\* the flag set again by the pull that removed the last of two strings
C13_Witness ==
  /\ op = "pull" /\ ~isnull /\ fifo.size = 2 /\ Len(pulled) = 2
  /\ pre.empty = 0 /\ fifo.empty = 1 /\ Live(fifo) = 0

\* C14: index-equality invariant.  produce = consume exactly when the
\* number of slots holding a string is 0 or equals size.
C14_IndexEquality ==
  ~isnull =>
    (fifo.produce = fifo.consume <=> Live(fifo) \in {0, fifo.size})

\* a full size-3 buffer whose indices meet at slot 2
C14_Witness ==
  /\ ~isnull /\ fifo.size = 3 /\ Live(fifo) = 3
  /\ fifo.produce = 2 /\ fifo.consume = 2

\* pushes and pulls among the first n calls of the wrap-around scenario
wrap_pushes(n, C) ==
  (IF n < C THEN n ELSE C)
  + (IF n <= 2 * C THEN 0 ELSE IF n < 3 * C THEN n - 2 * C ELSE C)
wrap_pulls(n, C) == n - wrap_pushes(n, C)

\* C15: wrap-around.  From a new buffer of size C, while the calls are C
\* pushes, C pulls, C pushes, C pulls (each copy being allocated), every
\* push returned non-zero and stored its string and every pull returned the
\* next string in the order pushed; after the 4C calls all 2C strings have
\* been returned in order.
C15_WrapAround ==
  (~isnull /\ wrap_step >= 0) =>
    /\ Len(pushed) = wrap_pushes(wrap_step, fifo.size)
    /\ Len(pulled) = wrap_pulls(wrap_step, fifo.size)
    /\ IsPrefix(pulled, pushed)
    /\ (op = "push" => (ret # 0 /\ alloc = "ok" /\ pushed[Len(pushed)] = arg))
    /\ (op = "pull" => (ret # NULL /\ ret = pushed[Len(pulled)]))
    /\ (wrap_step = 4 * fifo.size =>
          (pulled = pushed /\ Len(pushed) = 2 * fifo.size))

\* the scenario completed on a buffer of size 3
C15_Witness ==
  /\ ~isnull /\ fifo.size = 3 /\ wrap_step = 12 /\ op = "pull"
  /\ pulled = <<"a", "b", "a", "b", "b", "a">>

\* C16: pull on empty.  A fifo_pull entered with no slot holding a string
\* returns NULL and leaves the struct, slots included, as it was.
C16_PullOnEmpty ==
  (op = "pull" /\ ~isnull /\ Live(pre) = 0) =>
    /\ pc = "run"
    /\ ret = NULL
    /\ fifo = pre

\* a pull on a size-3 buffer emptied with its indices at slot 2
C16_Witness ==
  /\ op = "pull" /\ ~isnull /\ pre.size = 3 /\ Live(pre) = 0
  /\ pre.consume = 2 /\ pre.produce = 2 /\ ret = NULL

\* C17: index tracking.  For size >= 1, produce is the number of pushes
\* that stored modulo size, consume is the number of pulls that returned a
\* string modulo size, and both lie in 0 .. size - 1.
C17_IndexTracking ==
  (~isnull /\ fifo.size >= 1) =>
    /\ fifo.produce = Len(pushed) % fifo.size
    /\ fifo.consume = Len(pulled) % fifo.size
    /\ fifo.produce \in 0 .. (fifo.size - 1)
    /\ fifo.consume \in 0 .. (fifo.size - 1)

\* five pushes and four pulls on a size-3 buffer
C17_Witness ==
  /\ ~isnull /\ fifo.size = 3 /\ Len(pushed) = 5 /\ Len(pulled) = 4
  /\ fifo.produce = 2 /\ fifo.consume = 1

\* C18: successful pull effect.  A fifo_pull entered with a string held
\* returns the string of slot consume, sets that slot to NULL, advances
\* consume to (consume + 1) % size, leaves empty = 1 exactly when the new
\* consume equals produce, and leaves size, produce and every other slot
\* unchanged.
C18_PullEffect ==
  (op = "pull" /\ ~isnull /\ Live(pre) > 0) =>
    /\ ret # NULL
    /\ ret = pre.contents[pre.consume]
    /\ fifo.contents[pre.consume] = NULL
    /\ fifo.consume = (pre.consume + 1) % pre.size
    /\ (fifo.empty = 1 <=> fifo.consume = fifo.produce)
    /\ fifo.produce = pre.produce
    /\ fifo.size = pre.size
    /\ DOMAIN fifo.contents = DOMAIN pre.contents
    /\ \A i \in DOMAIN pre.contents :
         i # pre.consume => fifo.contents[i] = pre.contents[i]

\* a pull from slot 2 of a full size-3 buffer, consume wrapping to 0
C18_Witness ==
  /\ op = "pull" /\ ~isnull /\ pre.size = 3 /\ Live(pre) = 3
  /\ pre.consume = 2 /\ fifo.consume = 0 /\ fifo.empty = 0 /\ ret = "b"

\* the slots of struct f from consume on, as many as fifo_filled counts
OccupiedRange(f) ==
  {(f.consume + k) % f.size : k \in 0 .. (fifo_filled(f) - 1)}

\* C19: slot population invariant.  For size >= 1, slot i holds a string
\* exactly when i is one of the fifo_filled slots starting at consume
\* (wrapping modulo size); so a fifo_pull that returned NULL was entered
\* with no string held.
C19_SlotPopulation ==
  /\ (~isnull /\ fifo.size >= 1) => LiveSlots(fifo) = OccupiedRange(fifo)
  /\ (op = "pull" /\ ~isnull /\ ret = NULL) =>
       (Live(pre) = 0 /\ fifo_filled(pre) = 0)

\* two strings held in slots 2 and 0 of a size-3 buffer
C19_Witness ==
  /\ ~isnull /\ fifo.size = 3 /\ fifo.consume = 2
  /\ LiveSlots(fifo) = {0, 2}

\* C20: destroy is safe.  fifo_free of a buffer of any size returns, its
\* release loop reads only slots 0 .. size - 1, and the loop body, which
\* evaluates (curr + 1) % size, is not entered when size = 0.
C20_DestroySafe ==
  (op = "free" /\ arg = "obj") =>
    /\ pc = "run" /\ isnull
    /\ \A i \in DOMAIN inspected : inspected[i] \in 0 .. (pre.size - 1)
    /\ (pre.size = 0 => inspected = <<>>)

====
